---- MODULE Spec2Model ----
(***************************************************************************)
(* Model of the CommerceAgent web front end (apps/web): the shopping-cart  *)
(* reducer of lib/CartContext.tsx, the HomePage state of app/page.tsx with *)
(* the chat of components/Chat.tsx, and sendAgentMessage of                *)
(* lib/agentClient.ts.                                                     *)
(*                                                                         *)
(* Numbers are JavaScript numbers in the source; prices are integral cents *)
(* and the quantities dispatched here are integers, far below 2^53, so the *)
(* reducer's arithmetic is exact and is modelled on Int.  The model bounds *)
(* keep every total below the width of the integers of the model checker.  *)
(***************************************************************************)
EXTENDS Integers, Sequences, FiniteSets, TLC

VARIABLES
    cart,   \* CartProvider's reducer state: [items, total]
    last,   \* history: the cart action dispatched last, and whether an entry matched
    scen    \* history: how far the dispatches so far follow the trace of ScenarioTrace

VARIABLES
    products,               \* HomePage: the product list of the latest response
    filteredProducts,       \* HomePage: the list handed to ProductGrid
    followUp,               \* HomePage: the follow-up question, or "null"
    loading,                \* HomePage: an image search is running
    priceRange,             \* HomePage: the selected price range, [min, max]
    chatExternalMessages,   \* HomePage: messages handed to Chat, not yet consumed
    chatExternalLoading,    \* HomePage: the externalLoading prop of Chat
    messages,               \* Chat: the message log
    input,                  \* Chat: the text of the message box
    chatLoading,            \* Chat: its own loading state
    pending,                \* the requests to /agent/chat awaiting their answer
    issued,                 \* the number of requests issued so far
    applied,                \* history: the handler and the bound of the price filter applied last
    event,                  \* history: the handler that ran last, its request and its answer
    submitted               \* history: the state of the page when handleSubmit ran last

cartVars == <<cart, last, scen>>

pageVars == <<products, filteredProducts, followUp, loading, priceRange,
              chatExternalMessages, chatExternalLoading, messages, input,
              chatLoading, pending, issued, applied, event, submitted>>

VARIABLES
    env,        \* agentClient: the configuration read from process.env when the module loads
    call,       \* sendAgentMessage: the arguments of the call made last
    sent,       \* sendAgentMessage: the request handed to fetch
    received,   \* sendAgentMessage: what fetch settled with
    outcome     \* sendAgentMessage: the state of the promise it returned

clientVars == <<env, call, sent, received, outcome>>

VARIABLES
    trace       \* history: the answers of the requests and the messages of the image flow

vars == <<cartVars, pageVars, clientVars, trace>>

----------------------------------------------------------------------------
(* Bounds of the model *)

\* Add to Cart is offered while the entry's quantity is below this bound.
MaxQuantity == 3

\* The page issues at most this many requests (chat submissions and uploads).
MaxRequests == 2

\* The shopper, who uses the grid and the cart next to the page, lets the
\* page issue at most this many requests and clicks at most this many times
\* on the controls of the cart.
MaxShopRequests == 1

MaxClicks == 3

\* The shopper who searches by image clicks at most this many times on the
\* controls of the cart.
MaxBrowseClicks == 2

----------------------------------------------------------------------------
(* Data: lib/types.ts *)

\* A ProductCard, reduced to the fields the cart and the page read.
Card(id, price_cents, currency) ==
    [id |-> id, price_cents |-> price_cents, currency |-> currency]

\* The product cards an agent response can deliver.  An id occurs with two
\* cards, as when a later response reprices or re-sources the product.
Catalog ==
    { Card("p1", 1999, "USD"), Card("p1", 2000, "USD"),
      Card("p2", 500, "USD"),  Card("p2", 500, "EUR"),
      Card("p3", 0, "USD"),    Card("p3", 2001, "USD") }

ProductIds == { c.id : c \in Catalog }

\* The numbers UPDATE_QUANTITY is dispatched with.  The reducer takes any
\* number: 0 stands for the numbers that are no positive integer, and 5 is
\* the quantity of the scenario of the cart.
Quantities == (0 .. MaxQuantity) \cup {5}

----------------------------------------------------------------------------
(* The cart reducer: lib/CartContext.tsx *)

\* items.reduce((sum, item) => sum + item.price_cents * item.quantity, 0)
RECURSIVE SumItems(_)
SumItems(items) ==
    IF items = <<>> THEN 0
    ELSE SumItems(SubSeq(items, 1, Len(items) - 1))
         + items[Len(items)].price_cents * items[Len(items)].quantity

\* A find that never matches, as when the id is compared with the product.
ExistingItemNever(state, id) == FALSE

\* state.items.find(item => item.id === id), as a truth value
ExistingItem(state, id) ==
    \E i \in DOMAIN state.items : state.items[i].id = id

\* The matching entry rebuilt from the product dispatched, as when the
\* spread took the product's fields instead of the entry's.
IncrementExistingReprices(state, product) ==
    LET updatedItems ==
            [i \in DOMAIN state.items |->
                IF state.items[i].id = product.id
                THEN [id |-> product.id, price_cents |-> product.price_cents,
                      currency |-> product.currency,
                      quantity |-> state.items[i].quantity + 1]
                ELSE state.items[i]]
    IN  [items |-> updatedItems, total |-> SumItems(updatedItems)]

\* The map without its test of the id: every entry's quantity grows.
IncrementAll(state, product) ==
    LET updatedItems ==
            [i \in DOMAIN state.items |->
                [state.items[i] EXCEPT !.quantity = @ + 1]]
    IN  [items |-> updatedItems, total |-> SumItems(updatedItems)]

\* ADD_TO_CART, product.id present: its quantity + 1, total recomputed
IncrementExisting(state, product) ==
    LET updatedItems ==
            [i \in DOMAIN state.items |->
                IF state.items[i].id = product.id
                THEN [state.items[i] EXCEPT !.quantity = @ + 1]
                ELSE state.items[i]]
    IN  [items |-> updatedItems, total |-> SumItems(updatedItems)]

\* The new entry placed before the entries of the cart.
AddNewItemFirst(state, product) ==
    LET newItem == [id |-> product.id, price_cents |-> product.price_cents,
                    currency |-> product.currency, quantity |-> 1]
    IN  [items |-> <<newItem>> \o state.items,
         total |-> SumItems(state.items) + product.price_cents]

\* The new entry appended, its price left out of the total.
AddNewItemStaleTotal(state, product) ==
    LET newItem == [id |-> product.id, price_cents |-> product.price_cents,
                    currency |-> product.currency, quantity |-> 1]
    IN  [items |-> Append(state.items, newItem),
         total |-> SumItems(state.items)]

\* ADD_TO_CART, product.id absent: { ...product, quantity: 1 } appended
AddNewItem(state, product) ==
    LET newItem == [id |-> product.id, price_cents |-> product.price_cents,
                    currency |-> product.currency, quantity |-> 1]
    IN  [items |-> Append(state.items, newItem),
         total |-> SumItems(state.items) + product.price_cents]

AddToCart(state, product) ==
    IF ExistingItem(state, product.id)
    THEN IncrementExisting(state, product)
    ELSE AddNewItem(state, product)

\* The filter with its test inverted: only the matching entry is kept.
RemoveFromCartInverted(state, productId) ==
    LET updatedItems == SelectSeq(state.items, LAMBDA item : item.id = productId)
    IN  [items |-> updatedItems, total |-> SumItems(updatedItems)]

\* REMOVE_FROM_CART: the entries whose id differs, total recomputed
RemoveFromCart(state, productId) ==
    LET updatedItems == SelectSeq(state.items, LAMBDA item : item.id # productId)
    IN  [items |-> updatedItems, total |-> SumItems(updatedItems)]

\* The map without its test of the id: every entry gets the quantity.
UpdateQuantityAll(state, productId, quantity) ==
    LET updatedItems ==
            [i \in DOMAIN state.items |->
                [state.items[i] EXCEPT !.quantity = quantity]]
    IN  [items |-> updatedItems, total |-> SumItems(updatedItems)]

\* The quantity added to the entry's instead of replacing it.
UpdateQuantityAdds(state, productId, quantity) ==
    LET updatedItems ==
            [i \in DOMAIN state.items |->
                IF state.items[i].id = productId
                THEN [state.items[i] EXCEPT !.quantity = @ + quantity]
                ELSE state.items[i]]
    IN  [items |-> updatedItems, total |-> SumItems(updatedItems)]

\* UPDATE_QUANTITY: the matching entry's quantity replaced, total recomputed
UpdateQuantity(state, productId, quantity) ==
    LET updatedItems ==
            [i \in DOMAIN state.items |->
                IF state.items[i].id = productId
                THEN [state.items[i] EXCEPT !.quantity = quantity]
                ELSE state.items[i]]
    IN  [items |-> updatedItems, total |-> SumItems(updatedItems)]

\* The entries dropped and the total kept.
ClearCartKeepTotal(state) == [items |-> <<>>, total |-> state.total]

\* CLEAR_CART
ClearCart(state) == [items |-> <<>>, total |-> 0]

\* A reducer whose default branch starts the cart over.
cartReducerResetsOnUnknown(state, action) ==
    CASE action.type = "ADD_TO_CART"      -> AddToCart(state, action.product)
      [] action.type = "REMOVE_FROM_CART" -> RemoveFromCart(state, action.productId)
      [] action.type = "UPDATE_QUANTITY"  ->
            UpdateQuantity(state, action.productId, action.quantity)
      [] action.type = "CLEAR_CART"       -> ClearCart(state)
      [] OTHER                            -> [items |-> <<>>, total |-> 0]

cartReducer(state, action) ==
    CASE action.type = "ADD_TO_CART"      -> AddToCart(state, action.product)
      [] action.type = "REMOVE_FROM_CART" -> RemoveFromCart(state, action.productId)
      [] action.type = "UPDATE_QUANTITY"  ->
            UpdateQuantity(state, action.productId, action.quantity)
      [] action.type = "CLEAR_CART"       -> ClearCart(state)
      [] OTHER                            -> state

\* useReducer(cartReducer, { items: [], total: 0 })
EmptyCart == [items |-> <<>>, total |-> 0]

----------------------------------------------------------------------------
(* History of the dispatches *)

\* The trace of the scenario of the cart: the actions dispatched, in order.
ScenarioTrace ==
    << [type |-> "ADD_TO_CART", product |-> Card("p1", 1999, "USD")],
       [type |-> "ADD_TO_CART", product |-> Card("p1", 1999, "USD")],
       [type |-> "UPDATE_QUANTITY", productId |-> "p1", quantity |-> 5],
       [type |-> "REMOVE_FROM_CART", productId |-> "p1"] >>

\* scen = k in 0..4: the actions dispatched since the start are exactly the
\* first k of ScenarioTrace; scen = -1: they are not.
ScenarioStep(k, action) ==
    IF k >= 0 /\ k < Len(ScenarioTrace) /\ action = ScenarioTrace[k + 1]
    THEN k + 1
    ELSE -1

\* Whether the action finds an entry to act on: the entry of its id, and for
\* CLEAR_CART any entry.
Hit(state, action, id) ==
    IF action.type = "CLEAR_CART"
    THEN state.items # <<>>
    ELSE \E i \in DOMAIN state.items : state.items[i].id = id

\* The history variables record the action dispatched.
Recorded(action, id) ==
    /\ last' = [type |-> action.type, productId |-> id,
                hit |-> Hit(cart, action, id)]
    /\ scen' = ScenarioStep(scen, action)

\* A dispatch made on the provider itself: the page is untouched.
Observe(action, id) ==
    /\ Recorded(action, id)
    /\ UNCHANGED <<pageVars, clientVars, trace>>

----------------------------------------------------------------------------
(* The cart's operations: CartProvider.  Each dispatches one action. *)

addToCart(product) ==
    LET action == [type |-> "ADD_TO_CART", product |-> product]
    IN  /\ \A i \in DOMAIN cart.items :
              cart.items[i].id = product.id => cart.items[i].quantity < MaxQuantity
        /\ cart' = cartReducer(cart, action)
        /\ Observe(action, product.id)

removeFromCart(productId) ==
    LET action == [type |-> "REMOVE_FROM_CART", productId |-> productId]
    IN  /\ cart' = cartReducer(cart, action)
        /\ Observe(action, productId)

updateQuantity(productId, quantity) ==
    LET action == [type |-> "UPDATE_QUANTITY", productId |-> productId,
                   quantity |-> quantity]
    IN  /\ cart' = cartReducer(cart, action)
        /\ Observe(action, productId)

clearCart ==
    LET action == [type |-> "CLEAR_CART"]
    IN  /\ cart' = cartReducer(cart, action)
        /\ Observe(action, "none")

\* An action of no known type reaches the reducer's default branch.
otherAction ==
    LET action == [type |-> "OTHER"]
    IN  /\ cart' = cartReducer(cart, action)
        /\ Observe(action, "none")

----------------------------------------------------------------------------
(* Data of the page: lib/types.ts, app/page.tsx *)

\* useState({ min: 0, max: 2000 })
DefaultRange == [min |-> 0, max |-> 2000]

\* The bounds the price filter of the page is set to, in whole currency units.
PriceRanges ==
    { DefaultRange, [min |-> 5, max |-> 20] }

\* The answers of /agent/chat: an AgentResponse, reduced to the fields the page
\* reads.  follow_up_question is a string, null, or left out.
Responses ==
    { [text |-> "t1", follow_up_question |-> "q1",
       products |-> << Card("p1", 1999, "USD"), Card("p2", 499, "USD"),
                       Card("p3", 2001, "USD") >>],
      [text |-> "t2", follow_up_question |-> "undefined",
       products |-> << Card("p3", 0, "USD"), Card("p1", 2000, "USD"),
                       Card("p2", 500, "EUR") >>],
      [text |-> "t3", follow_up_question |-> "null",
       products |-> << >>] }

\* What the user types into the message box.
Inputs == { " ", " shoes " }

\* input.trim(), on the texts of Inputs
Trim(text) ==
    CASE text = " "       -> ""
      [] text = " shoes " -> "shoes"
      [] OTHER            -> text

\* No answer: the place of a response in the history of a step without one.
NoResponse == [text |-> "none", follow_up_question |-> "undefined", products |-> << >>]

\* The history variable event records the handler that ran, the request it
\* issued or settled (0: none), the answer it applied, and the priceRange of
\* the page when it started.
Happened(by, id, response) ==
    event' = [by |-> by, id |-> id, response |-> response, range |-> priceRange]

\* value ?? fallback
NullishCoalesce(value, fallback) ==
    IF value \in {"null", "undefined"} THEN fallback ELSE value

----------------------------------------------------------------------------
(* The price filter: app/page.tsx *)

\* product.price_cents / 100, exactly: whole units and the cents left over
PriceInDollars(product) ==
    [units |-> product.price_cents \div 100, cents |-> product.price_cents % 100]

\* priceInDollars >= n, for a whole number n
DollarsAtLeast(dollars, n) ==
    dollars.units >= n

\* The comparison on the whole units only, as after a rounding down.
DollarsAtMostTruncated(dollars, n) ==
    dollars.units <= n

\* priceInDollars <= n, for a whole number n
DollarsAtMost(dollars, n) ==
    \/ dollars.units < n
    \/ dollars.units = n /\ dollars.cents = 0

InPriceRange(product, range) ==
    /\ DollarsAtLeast(PriceInDollars(product), range.min)
    /\ DollarsAtMost(PriceInDollars(product), range.max)

\* A removal in place while the list is walked: the entry after a removed
\* one is skipped.
RECURSIVE SpliceFrom(_, _, _)
SpliceFrom(list, i, range) ==
    IF i > Len(list) THEN list
    ELSE IF InPriceRange(list[i], range)
         THEN SpliceFrom(list, i + 1, range)
         ELSE SpliceFrom(SubSeq(list, 1, i - 1) \o SubSeq(list, i + 1, Len(list)),
                         i + 1, range)

PriceFilterSplicing(list, range) == SpliceFrom(list, 1, range)

\* The products kept, latest first.
PriceFilterReversed(list, range) ==
    LET kept == SelectSeq(list, LAMBDA product : InPriceRange(product, range))
    IN  [i \in 1 .. Len(kept) |-> kept[Len(kept) + 1 - i]]

\* list.filter(product => { ... return priceInDollars >= min && priceInDollars <= max })
PriceFilter(list, range) ==
    SelectSeq(list, LAMBDA product : InPriceRange(product, range))

----------------------------------------------------------------------------
(* HomePage: app/page.tsx *)

\* A handler that keeps the results shown when the answer has no products.
handleResponseKeepsOnEmpty(response, source, range) ==
    /\ products' = IF response.products = << >> THEN products ELSE response.products
    /\ filteredProducts' =
            IF response.products = << >>
            THEN filteredProducts
            ELSE PriceFilter(response.products, range)
    /\ followUp' = NullishCoalesce(response.follow_up_question, "null")
    /\ chatExternalMessages' =
            IF source = "image"
            THEN Append(chatExternalMessages,
                        [role |-> "assistant", content |-> response.text])
            ELSE chatExternalMessages
    /\ applied' = [by |-> "handleResponse", range |-> range]

\* A handler that adds the products of the answer to the stored ones.
handleResponseAppends(response, source, range) ==
    /\ products' = products \o response.products
    /\ filteredProducts' = PriceFilter(products \o response.products, range)
    /\ followUp' = NullishCoalesce(response.follow_up_question, "null")
    /\ chatExternalMessages' =
            IF source = "image"
            THEN Append(chatExternalMessages,
                        [role |-> "assistant", content |-> response.text])
            ELSE chatExternalMessages
    /\ applied' = [by |-> "handleResponse", range |-> range]

\* handleResponse(response, source), run by the render whose priceRange is range
handleResponse(response, source, range) ==
    /\ products' = response.products
    /\ filteredProducts' = PriceFilter(response.products, range)
    /\ followUp' = NullishCoalesce(response.follow_up_question, "null")
    /\ chatExternalMessages' =
            IF source = "image"
            THEN Append(chatExternalMessages,
                        [role |-> "assistant", content |-> response.text])
            ELSE chatExternalMessages
    /\ applied' = [by |-> "handleResponse", range |-> range]

\* A request to /agent/chat: the render that issued it holds priceRange = range.
Request(source) ==
    [id |-> issued + 1, source |-> source, range |-> priceRange]

\* handleImageUpload, from reader.onload to the await of sendAgentMessage
handleImageUpload ==
    /\ issued < MaxRequests
    /\ loading' = TRUE
    /\ chatExternalMessages' =
            << [role |-> "user", content |-> "Uploaded an image for visual search."] >>
    /\ chatExternalLoading' = TRUE
    /\ pending' = pending \cup {Request("image")}
    /\ issued' = issued + 1
    /\ Happened("handleImageUpload", issued + 1, NoResponse)
    /\ UNCHANGED <<products, filteredProducts, followUp, priceRange, messages,
                   input, chatLoading, applied, submitted>>
    /\ UNCHANGED <<cartVars, clientVars>>

\* handleImageUpload, sendAgentMessage resolved: handleResponse, then finally
imageResolved(request, response) ==
    /\ request \in pending /\ request.source = "image"
    /\ handleResponse(response, "image", request.range)
    /\ loading' = FALSE
    /\ chatExternalLoading' = FALSE
    /\ pending' = pending \ {request}
    /\ Happened("imageResolved", request.id, response)
    /\ UNCHANGED <<priceRange, messages, input, chatLoading, issued, submitted>>
    /\ UNCHANGED <<cartVars, clientVars>>

\* handleImageUpload, sendAgentMessage rejected: finally, and the error escapes
imageRejected(request) ==
    /\ request \in pending /\ request.source = "image"
    /\ loading' = FALSE
    /\ chatExternalLoading' = FALSE
    /\ pending' = pending \ {request}
    /\ Happened("imageRejected", request.id, NoResponse)
    /\ UNCHANGED <<products, filteredProducts, followUp, priceRange,
                   chatExternalMessages, messages, input, chatLoading, issued,
                   applied, submitted>>
    /\ UNCHANGED <<cartVars, clientVars>>

\* A handler that filters the list on display instead of the stored one.
onPriceChangeNarrows(range) ==
    /\ priceRange' = range
    /\ filteredProducts' = PriceFilter(filteredProducts, range)
    /\ applied' = [by |-> "onPriceChange", range |-> range]
    /\ Happened("onPriceChange", 0, NoResponse)
    /\ UNCHANGED <<products, followUp, loading, chatExternalMessages,
                   chatExternalLoading, messages, input, chatLoading, pending,
                   issued, submitted>>
    /\ UNCHANGED <<cartVars, clientVars>>

\* The handler HomePage gives Filters as onPriceChange
onPriceChange(range) ==
    /\ priceRange' = range
    /\ filteredProducts' = PriceFilter(products, range)
    /\ applied' = [by |-> "onPriceChange", range |-> range]
    /\ Happened("onPriceChange", 0, NoResponse)
    /\ UNCHANGED <<products, followUp, loading, chatExternalMessages,
                   chatExternalLoading, messages, input, chatLoading, pending,
                   issued, submitted>>
    /\ UNCHANGED <<cartVars, clientVars>>

\* <ProductGrid products={filteredProducts} />: the placeholder when the list
\* is empty, and otherwise one card per product, in the order of the list
ProductGrid(list) ==
    IF Len(list) = 0
    THEN [view |-> "placeholder", cards |-> << >>]
    ELSE [view |-> "grid", cards |-> [i \in 1 .. Len(list) |-> list[i].id]]

----------------------------------------------------------------------------
(* Chat: components/Chat.tsx *)

\* onChange of the message box
setInput(value) ==
    /\ value # input
    /\ input' = value
    /\ Happened("setInput", 0, NoResponse)
    /\ UNCHANGED <<products, filteredProducts, followUp, loading, priceRange,
                   chatExternalMessages, chatExternalLoading, messages,
                   chatLoading, pending, issued, applied, submitted>>
    /\ UNCHANGED <<cartVars, clientVars>>

\* A form that submits also while a request is running.
handleSubmitWhileLoading ==
    /\ Trim(input) # ""
    /\ issued < MaxRequests
    /\ messages' = Append(messages, [role |-> "user", content |-> Trim(input)])
    /\ input' = ""
    /\ chatLoading' = TRUE
    /\ pending' = pending \cup {Request("text")}
    /\ issued' = issued + 1
    /\ Happened("handleSubmit", issued + 1, NoResponse)
    /\ submitted' = [products |-> products, filteredProducts |-> filteredProducts,
                     followUp |-> followUp, messages |-> messages]
    /\ UNCHANGED <<products, filteredProducts, followUp, loading, priceRange,
                   chatExternalMessages, chatExternalLoading, applied>>
    /\ UNCHANGED <<cartVars, clientVars>>

\* handleSubmit, to the await of sendAgentMessage.  The form submits only
\* while its button is enabled.
handleSubmit ==
    /\ ~(chatLoading \/ chatExternalLoading)
    /\ Trim(input) # ""
    /\ issued < MaxRequests
    /\ messages' = Append(messages, [role |-> "user", content |-> Trim(input)])
    /\ input' = ""
    /\ chatLoading' = TRUE
    /\ pending' = pending \cup {Request("text")}
    /\ issued' = issued + 1
    /\ Happened("handleSubmit", issued + 1, NoResponse)
    /\ submitted' = [products |-> products, filteredProducts |-> filteredProducts,
                     followUp |-> followUp, messages |-> messages]
    /\ UNCHANGED <<products, filteredProducts, followUp, loading, priceRange,
                   chatExternalMessages, chatExternalLoading, applied>>
    /\ UNCHANGED <<cartVars, clientVars>>

\* handleSubmit, sendAgentMessage resolved: onResponse, the assistant's
\* message, then finally
submitResolved(request, response) ==
    /\ request \in pending /\ request.source = "text"
    /\ handleResponse(response, "text", request.range)
    /\ messages' = Append(messages, [role |-> "assistant", content |-> response.text])
    /\ chatLoading' = FALSE
    /\ pending' = pending \ {request}
    /\ Happened("submitResolved", request.id, response)
    /\ UNCHANGED <<loading, priceRange, chatExternalLoading, input, issued,
                   submitted>>
    /\ UNCHANGED <<cartVars, clientVars>>

\* A catch that resets the results of the page.
submitRejectedClears(request) ==
    /\ request \in pending /\ request.source = "text"
    /\ products' = << >>
    /\ filteredProducts' = << >>
    /\ followUp' = "null"
    /\ chatLoading' = FALSE
    /\ pending' = pending \ {request}
    /\ Happened("submitRejected", request.id, NoResponse)
    /\ UNCHANGED <<loading, priceRange, chatExternalMessages, chatExternalLoading,
                   messages, input, issued, applied, submitted>>
    /\ UNCHANGED <<cartVars, clientVars>>

\* A catch that takes the message of the user back out of the log.
submitRejectedRollsBack(request) ==
    /\ request \in pending /\ request.source = "text"
    /\ messages' = submitted.messages
    /\ chatLoading' = FALSE
    /\ pending' = pending \ {request}
    /\ Happened("submitRejected", request.id, NoResponse)
    /\ UNCHANGED <<products, filteredProducts, followUp, loading, priceRange,
                   chatExternalMessages, chatExternalLoading, input, issued,
                   applied, submitted>>
    /\ UNCHANGED <<cartVars, clientVars>>

\* A catch without the finally: the loading state stays set.
submitRejectedStaysLoading(request) ==
    /\ request \in pending /\ request.source = "text"
    /\ pending' = pending \ {request}
    /\ Happened("submitRejected", request.id, NoResponse)
    /\ UNCHANGED <<products, filteredProducts, followUp, loading, priceRange,
                   chatExternalMessages, chatExternalLoading, messages, input,
                   chatLoading, issued, applied, submitted>>
    /\ UNCHANGED <<cartVars, clientVars>>

\* handleSubmit, sendAgentMessage rejected: console.error, then finally
submitRejected(request) ==
    /\ request \in pending /\ request.source = "text"
    /\ chatLoading' = FALSE
    /\ pending' = pending \ {request}
    /\ Happened("submitRejected", request.id, NoResponse)
    /\ UNCHANGED <<products, filteredProducts, followUp, loading, priceRange,
                   chatExternalMessages, chatExternalLoading, messages, input,
                   issued, applied, submitted>>
    /\ UNCHANGED <<cartVars, clientVars>>

\* The effect on externalMessages: they join the log, and
\* onExternalMessagesConsumed empties the list of the page.
consumeExternalMessages ==
    /\ Len(chatExternalMessages) > 0
    /\ messages' = messages \o chatExternalMessages
    /\ chatExternalMessages' = << >>
    /\ Happened("consumeExternalMessages", 0, NoResponse)
    /\ UNCHANGED <<products, filteredProducts, followUp, loading, priceRange,
                   chatExternalLoading, input, chatLoading, pending, issued,
                   applied, submitted>>
    /\ UNCHANGED <<cartVars, clientVars>>

----------------------------------------------------------------------------
(* sendAgentMessage: lib/agentClient.ts, lib/config.ts *)

\* text.slice(0, 200): the number of characters kept
SliceLimit == 200

\* A string, where its characters matter: the sequence of their codes.
Chars(n) == [i \in 1 .. n |-> 97 + (i % 3)]

\* text.slice(0, n)
Slice(text, n) ==
    SubSeq(text, 1, IF Len(text) < n THEN Len(text) ELSE n)

\* The configuration: ENV_ALLOW_WEB_DEFAULT of agentClient.ts and
\* DEFAULT_BROWSE_AI_EXTRACTOR of config.ts ("" when the variable is unset).
Envs == [allowWebDefault : BOOLEAN, extractor : {"", "env-extractor"}]

DefaultEnv == [allowWebDefault |-> TRUE, extractor |-> ""]

\* AgentMessageOptions: each field is left out ("undefined") or given; a
\* string given may be empty.
Options ==
    [image_b64 : {"undefined", "", "img"},
     web_url : {"undefined", "", "url"},
     allow_web : {"undefined", "true", "false"},
     browse_extractor : {"undefined", "", "extractor"},
     browse_api_key : {"undefined", "key"}]

\* The message argument.
Messages == {"", "shoes"}

\* Boolean(value) of a string or undefined
Truthy(value) == value \notin {"undefined", ""}

\* One property of an object, as JSON.stringify writes it.
JsonString(key, value) == [key |-> key, type |-> "string", text |-> value]

JsonBoolean(key, value) ==
    [key |-> key, type |-> "boolean", text |-> IF value THEN "true" ELSE "false"]

\* options.allow_web ?? (Boolean(options.web_url) || Boolean(options.image_b64)
\*                       || ENV_ALLOW_WEB_DEFAULT)
InferredAllowWeb(options, e) ==
    IF options.allow_web # "undefined"
    THEN options.allow_web = "true"
    ELSE Truthy(options.web_url) \/ Truthy(options.image_b64) \/ e.allowWebDefault

\* options.browse_extractor !== undefined ? options.browse_extractor
\*                                         : DEFAULT_BROWSE_AI_EXTRACTOR
Extractor(options, e) ==
    IF options.browse_extractor # "undefined"
    THEN options.browse_extractor
    ELSE e.extractor

\* A body that forwards the key of the caller along with the extractor.
RequestBodyForwardsKey(message, options, e) ==
    << JsonString("message", message),
       JsonBoolean("allow_web", InferredAllowWeb(options, e)) >>
    \o (IF Truthy(options.image_b64)
        THEN << JsonString("image_b64", options.image_b64) >> ELSE << >>)
    \o (IF Truthy(options.web_url)
        THEN << JsonString("web_url", options.web_url) >> ELSE << >>)
    \o (IF Truthy(Extractor(options, e))
        THEN << JsonString("browse_extractor", Extractor(options, e)) >>
             \o (IF Truthy(options.browse_api_key)
                 THEN << JsonString("browse_api_key", options.browse_api_key) >>
                 ELSE << >>)
        ELSE << >>)

\* JSON.stringify(body): the properties of body in the order they were set
RequestBody(message, options, e) ==
    << JsonString("message", message),
       JsonBoolean("allow_web", InferredAllowWeb(options, e)) >>
    \o (IF Truthy(options.image_b64)
        THEN << JsonString("image_b64", options.image_b64) >> ELSE << >>)
    \o (IF Truthy(options.web_url)
        THEN << JsonString("web_url", options.web_url) >> ELSE << >>)
    \o (IF Truthy(Extractor(options, e))
        THEN << JsonString("browse_extractor", Extractor(options, e)) >>
        ELSE << >>)

\* The status codes of the answers.
Statuses == {200, 299, 300, 404, 500}

\* The lengths of the bodies of the answers.
BodyLengths == {0, 3, SliceLimit, SliceLimit + 1}

\* What fetch settles with: a rejection (the network failed), or a Response
\* of some status whose body may be unreadable, and may not parse as JSON.
NoHttpResponse ==
    [settled |-> "none", status |-> 0, text |-> << >>, readable |-> FALSE,
     parses |-> FALSE]

HttpResponses ==
    [settled : {"resolved"}, status : Statuses,
     text : {Chars(n) : n \in BodyLengths}, readable : BOOLEAN, parses : BOOLEAN]

\* The answer a body that parses decodes to.
Parsed == CHOOSE response \in Responses : response.text = "t1"

\* response.ok
ResponseOk(status) == status >= 200 /\ status <= 299

\* The detail of the error, with the whole body.
DetailUnsliced(http) ==
    IF http.readable /\ http.text # << >>
    THEN [dash |-> TRUE, text |-> http.text]
    ELSE [dash |-> FALSE, text |-> << >>]

\* detail: "" or " - " and text.slice(0, 200); "" when response.text() throws
Detail(http) ==
    IF http.readable /\ http.text # << >>
    THEN [dash |-> TRUE, text |-> Slice(http.text, SliceLimit)]
    ELSE [dash |-> FALSE, text |-> << >>]

NoDetail == [dash |-> FALSE, text |-> << >>]

\* The promise of sendAgentMessage: not called, pending, fulfilled with a
\* value, or rejected with an error.
Idle ==
    [state |-> "idle", value |-> NoResponse,
     error |-> [name |-> "none", status |-> 0, url |-> "none", detail |-> NoDetail]]

NoCall ==
    [message |-> "",
     options |-> [image_b64 |-> "undefined", web_url |-> "undefined",
                  allow_web |-> "undefined", browse_extractor |-> "undefined",
                  browse_api_key |-> "undefined"]]

\* sendAgentMessage(message, options), to the await of fetch.  A call keeps
\* nothing of the calls before it: one call is followed from start to end.
sendAgentMessage(message, options) ==
    /\ outcome.state = "idle"
    /\ call' = [message |-> message, options |-> options]
    /\ sent' = [url |-> "/agent/chat", method |-> "POST",
                body |-> RequestBody(message, options, env)]
    /\ received' = NoHttpResponse
    /\ outcome' = [Idle EXCEPT !.state = "pending"]
    /\ UNCHANGED env
    /\ UNCHANGED <<cartVars, pageVars, trace>>

\* fetch resolved: the check of response.ok, then the error or response.json()
fetchResolved(http) ==
    /\ outcome.state = "pending"
    /\ received' = http
    /\ outcome' =
            IF ~ResponseOk(http.status)
            THEN [Idle EXCEPT !.state = "rejected",
                              !.error = [name |-> "Error", status |-> http.status,
                                         url |-> sent.url, detail |-> Detail(http)]]
            ELSE IF http.parses
                 THEN [Idle EXCEPT !.state = "fulfilled", !.value = Parsed]
                 ELSE [Idle EXCEPT !.state = "rejected",
                                   !.error.name = "SyntaxError"]
    /\ UNCHANGED <<env, call, sent>>
    /\ UNCHANGED <<cartVars, pageVars, trace>>

\* fetch rejected: its error is the error of sendAgentMessage
fetchRejected ==
    /\ outcome.state = "pending"
    /\ received' = [NoHttpResponse EXCEPT !.settled = "rejected"]
    /\ outcome' = [Idle EXCEPT !.state = "rejected", !.error.name = "TypeError"]
    /\ UNCHANGED <<env, call, sent>>
    /\ UNCHANGED <<cartVars, pageVars, trace>>

----------------------------------------------------------------------------
(* History of the requests and of the image flow *)

\* trace.latest: the answer of the request issued last among those that
\* succeeded (id 0: none yet); trace.rejected: a request has failed;
\* trace.handed: the messages HomePage put into chatExternalMessages, in the
\* order of the calls; trace.consumed: the messages the effect of Chat moved
\* from externalMessages to its log, in order.
NoTrace ==
    [latest |-> [id |-> 0, response |-> NoResponse], rejected |-> FALSE,
     handed |-> << >>, consumed |-> << >>, clicks |-> 0]

\* sendAgentMessage resolved with response for request
Answered(t, request, response) ==
    IF request.id > t.latest.id
    THEN [t EXCEPT !.latest = [id |-> request.id, response |-> response]]
    ELSE t

\* sendAgentMessage rejected
Failed(t) == [t EXCEPT !.rejected = TRUE]

\* setChatExternalMessages was called to put message into the list
Handed(t, message) == [t EXCEPT !.handed = Append(@, message)]

\* the effect of Chat appended list to its log
Consumed(t, list) == [t EXCEPT !.consumed = @ \o list]

\* a control of the cart was used
Clicked(t) == [t EXCEPT !.clicks = @ + 1]

----------------------------------------------------------------------------
(* The cart in the UI: components/ProductGrid.tsx, components/Cart.tsx *)

\* The options of the quantity select of a cart entry: [1, 2, ..., 10]
QuantityOptions == 1 .. 10

\* The product cards ProductGrid renders: those of its products prop.
Shown == { filteredProducts[i] : i \in DOMAIN filteredProducts }

\* onClick of the Add to Cart button of a product card
clickAddToCart(product) ==
    LET action == [type |-> "ADD_TO_CART", product |-> product]
    IN  /\ product \in Shown
        /\ cart' = cartReducer(cart, action)
        /\ Recorded(action, product.id)
        /\ trace' = Clicked(trace)
        /\ UNCHANGED <<pageVars, clientVars>>

\* onChange of the quantity select of the entry: Number(e.target.value) of
\* an option other than the one selected
selectQuantity(productId, quantity) ==
    LET action == [type |-> "UPDATE_QUANTITY", productId |-> productId,
                   quantity |-> quantity]
    IN  /\ quantity \in QuantityOptions
        /\ \E i \in DOMAIN cart.items :
              cart.items[i].id = productId /\ cart.items[i].quantity # quantity
        /\ cart' = cartReducer(cart, action)
        /\ Recorded(action, productId)
        /\ trace' = Clicked(trace)
        /\ UNCHANGED <<pageVars, clientVars>>

\* onClick of the Remove button of the entry
clickRemove(productId) ==
    LET action == [type |-> "REMOVE_FROM_CART", productId |-> productId]
    IN  /\ \E i \in DOMAIN cart.items : cart.items[i].id = productId
        /\ cart' = cartReducer(cart, action)
        /\ Recorded(action, productId)
        /\ trace' = Clicked(trace)
        /\ UNCHANGED <<pageVars, clientVars>>

\* formatPrice(priceCents, currency): the amount priceCents / 100 and the
\* currency it is formatted in
formatPrice(priceCents, currency) ==
    [amount |-> [units |-> priceCents \div 100, cents |-> priceCents % 100],
     currency |-> currency]

\* The subtotal line of the cart: formatPrice(state.total, "USD")
Subtotal(state) == formatPrice(state.total, "USD")

----------------------------------------------------------------------------
(* The specifications *)

Mounted ==
    /\ cart = EmptyCart
    /\ last = [type |-> "INIT", productId |-> "none", hit |-> FALSE]
    /\ scen = 0
    /\ products = << >>
    /\ filteredProducts = << >>
    /\ followUp = "null"
    /\ loading = FALSE
    /\ priceRange = DefaultRange
    /\ chatExternalMessages = << >>
    /\ chatExternalLoading = FALSE
    /\ messages = << >>
    /\ input = ""
    /\ chatLoading = FALSE
    /\ pending = {}
    /\ issued = 0
    /\ applied = [by |-> "none", range |-> DefaultRange]
    /\ event = [by |-> "none", id |-> 0, response |-> NoResponse,
                range |-> DefaultRange]
    /\ submitted = [products |-> << >>, filteredProducts |-> << >>,
                    followUp |-> "null", messages |-> << >>]
    /\ call = NoCall
    /\ sent = [url |-> "none", method |-> "none", body |-> << >>]
    /\ received = NoHttpResponse
    /\ outcome = Idle
    /\ trace = NoTrace

\* The application as it starts, built without NEXT_PUBLIC_* settings.
Init ==
    /\ Mounted
    /\ env = DefaultEnv

\* The cart, under every sequence of dispatches.
Next ==
    \/ \E product \in Catalog : addToCart(product)
    \/ \E productId \in ProductIds : removeFromCart(productId)
    \/ \E productId \in ProductIds, quantity \in Quantities :
            updateQuantity(productId, quantity)
    \/ clearCart
    \/ otherAction

Spec == Init /\ [][Next]_vars

\* The page: chat submissions, image uploads, their answers, price ranges.
PageNext ==
    \/ \E value \in Inputs : setInput(value) /\ UNCHANGED trace
    \/ handleSubmit /\ UNCHANGED trace
    \/ \E request \in pending, response \in Responses :
            submitResolved(request, response) /\ UNCHANGED trace
    \/ \E request \in pending : submitRejected(request) /\ UNCHANGED trace
    \/ handleImageUpload /\ UNCHANGED trace
    \/ \E request \in pending, response \in Responses :
            imageResolved(request, response) /\ UNCHANGED trace
    \/ \E request \in pending : imageRejected(request) /\ UNCHANGED trace
    \/ consumeExternalMessages /\ UNCHANGED trace
    \/ \E range \in PriceRanges : onPriceChange(range) /\ UNCHANGED trace

PageSpec == Init /\ [][PageNext]_vars

\* The client: calls of sendAgentMessage and what fetch settles with, under
\* every configuration.
ClientInit ==
    /\ Mounted
    /\ env \in Envs

ClientNext ==
    \/ \E message \in Messages, options \in Options :
            sendAgentMessage(message, options)
    \/ \E http \in HttpResponses : fetchResolved(http)
    \/ fetchRejected

ClientSpec == ClientInit /\ [][ClientNext]_vars

\* The promise of a request settles: fetch resolves with the answer of the
\* backend or rejects, and the continuation of the handler that awaits it
\* then runs.
settled ==
    /\ \E request \in pending :
            \/ \E response \in Responses : submitResolved(request, response)
            \/ submitRejected(request)
            \/ \E response \in Responses : imageResolved(request, response)
            \/ imageRejected(request)
    /\ UNCHANGED trace

\* The page, when every request is answered or fails.
FairPageSpec == PageSpec /\ WF_vars(settled)

\* The page with its history kept in trace: the steps of PageNext, each
\* recording the answer it applied and the messages it handed to the chat or
\* moved to the log.
TracedPageNext ==
    \/ \E value \in Inputs : setInput(value) /\ UNCHANGED trace
    \/ handleSubmit /\ UNCHANGED trace
    \/ \E request \in pending, response \in Responses :
            /\ submitResolved(request, response)
            /\ trace' = Answered(trace, request, response)
    \/ \E request \in pending :
            submitRejected(request) /\ trace' = Failed(trace)
    \/ /\ handleImageUpload
       /\ trace' = Handed(trace, [role |-> "user",
                                  content |-> "Uploaded an image for visual search."])
    \/ \E request \in pending, response \in Responses :
            /\ imageResolved(request, response)
            /\ trace' = Handed(Answered(trace, request, response),
                               [role |-> "assistant", content |-> response.text])
    \/ \E request \in pending :
            imageRejected(request) /\ trace' = Failed(trace)
    \/ /\ consumeExternalMessages
       /\ trace' = Consumed(trace, chatExternalMessages)
    \/ \E range \in PriceRanges : onPriceChange(range) /\ UNCHANGED trace

TracedPageSpec == Init /\ [][TracedPageNext]_vars

\* The shop: the page with the grid and the cart.  The page runs as in
\* PageNext and the shopper uses the buttons and the selects of the cart.
ShopNext ==
    \/ \E value \in Inputs : setInput(value) /\ UNCHANGED trace
    \/ issued < MaxShopRequests /\ handleSubmit /\ UNCHANGED trace
    \/ \E request \in pending, response \in Responses :
            submitResolved(request, response) /\ UNCHANGED trace
    \/ \E request \in pending : submitRejected(request) /\ UNCHANGED trace
    \/ issued < MaxShopRequests /\ handleImageUpload /\ UNCHANGED trace
    \/ \E request \in pending, response \in Responses :
            imageResolved(request, response) /\ UNCHANGED trace
    \/ \E request \in pending : imageRejected(request) /\ UNCHANGED trace
    \/ consumeExternalMessages /\ UNCHANGED trace
    \/ \E range \in PriceRanges : onPriceChange(range) /\ UNCHANGED trace
    \/ \E product \in Catalog :
            trace.clicks < MaxClicks /\ clickAddToCart(product)
    \/ \E productId \in ProductIds, quantity \in QuantityOptions :
            trace.clicks < MaxClicks /\ selectQuantity(productId, quantity)
    \/ \E productId \in ProductIds :
            trace.clicks < MaxClicks /\ clickRemove(productId)

ShopSpec == Init /\ [][ShopNext]_vars

\* The shop of a shopper who searches by image: the uploads, their answers
\* and the price ranges of the page, the controls of the cart, and the
\* dispatches of the provider that no control issues.
BrowseNext ==
    \/ issued < MaxShopRequests /\ handleImageUpload /\ UNCHANGED trace
    \/ \E request \in pending, response \in Responses :
            imageResolved(request, response) /\ UNCHANGED trace
    \/ \E request \in pending : imageRejected(request) /\ UNCHANGED trace
    \/ consumeExternalMessages /\ UNCHANGED trace
    \/ \E range \in PriceRanges : onPriceChange(range) /\ UNCHANGED trace
    \/ \E product \in Catalog :
            trace.clicks < MaxBrowseClicks /\ clickAddToCart(product)
    \/ \E productId \in ProductIds, quantity \in QuantityOptions :
            trace.clicks < MaxBrowseClicks /\ selectQuantity(productId, quantity)
    \/ \E productId \in ProductIds :
            trace.clicks < MaxBrowseClicks /\ clickRemove(productId)
    \/ clearCart
    \/ otherAction

BrowseSpec == Init /\ [][BrowseNext]_vars

----------------------------------------------------------------------------
(* Properties of the cart *)

\* The sum of price_cents * quantity over the entries, front to back.
RECURSIVE SumOfEntries(_)
SumOfEntries(items) ==
    IF items = <<>> THEN 0
    ELSE Head(items).price_cents * Head(items).quantity + SumOfEntries(Tail(items))

\* The entries of items without the one at index k.
WithoutIndex(items, k) ==
    SubSeq(items, 1, k - 1) \o SubSeq(items, k + 1, Len(items))

\* The index of the entry of id (there is one).
IndexOf(items, id) == CHOOSE k \in DOMAIN items : items[k].id = id

HasEntry(items, id) == \E k \in DOMAIN items : items[k].id = id

\* C1: in every state reachable from the empty cart by Add, Remove,
\* SetQuantity and Clear, the stored total equals the sum over all cart
\* entries of price_cents * quantity.
C1_TotalIsSumOfEntries ==
    cart.total = SumOfEntries(cart.items)

\* C1's case: a quantity was set in a cart of several entries with a total.
C1_Witness ==
    /\ last.type = "UPDATE_QUANTITY" /\ last.hit
    /\ Len(cart.items) >= 2
    /\ cart.total > 0

\* C2: in every state reachable from the empty cart, also by repeated Adds of
\* one product id, the cart holds at most one entry per distinct product id.
C2_OneEntryPerId ==
    \A i, j \in DOMAIN cart.items :
        cart.items[i].id = cart.items[j].id => i = j

\* C2's case: a product id already in the cart was added again.
C2_Witness ==
    /\ last.type = "ADD_TO_CART" /\ last.hit
    /\ Len(cart.items) >= 2

\* What Add(P) makes of the entries old.
AddedTo(old, P) ==
    IF HasEntry(old, P.id)
    THEN [i \in DOMAIN old |->
            IF old[i].id = P.id
            THEN [old[i] EXCEPT !.quantity = old[i].quantity + 1]
            ELSE old[i]]
    ELSE old \o << [id |-> P.id, price_cents |-> P.price_cents,
                    currency |-> P.currency, quantity |-> 1] >>

\* C3: Add(P) increments by exactly 1 the quantity of the entry of P.id when
\* there is one, and otherwise appends a new entry of quantity 1; every other
\* entry is unchanged.  From a cart without P, Add(P) followed by Add(P)
\* yields quantity 2 for P and a total raised by 2 * P.price_cents.
C3_AddSemantics ==
    [][ last'.type = "ADD_TO_CART" =>
          /\ \A P \in Catalog :
                addToCart(P) => cart'.items = AddedTo(cart.items, P)
          /\ \A P \in Catalog :
                ~HasEntry(cart.items, P.id) =>
                    LET add   == [type |-> "ADD_TO_CART", product |-> P]
                        twice == cartReducer(cartReducer(cart, add), add)
                    IN  /\ twice.items = AddedTo(AddedTo(cart.items, P), P)
                        /\ twice.items[Len(twice.items)].quantity = 2
                        /\ twice.total = cart.total + 2 * P.price_cents
      ]_vars

\* C3's case: the second Add of a product, in a cart holding another entry.
C3_Witness ==
    /\ last.type = "ADD_TO_CART" /\ last.hit
    /\ Len(cart.items) >= 2
    /\ cart.items[IndexOf(cart.items, last.productId)].quantity = 2

\* C4: Remove(id) yields exactly the prior entries minus the entry of that
\* id; when the cart is empty or holds no entry of that id, the items and
\* the total are the prior ones (and the reducer raises no error).
C4_RemoveSemantics ==
    [][ last'.type = "REMOVE_FROM_CART" =>
          \A id \in ProductIds :
            removeFromCart(id) =>
                IF HasEntry(cart.items, id)
                THEN cart'.items = WithoutIndex(cart.items, IndexOf(cart.items, id))
                ELSE cart' = cart
      ]_vars

\* C4's case: a Remove of an id that a cart with entries does not hold.
C4_Witness ==
    /\ last.type = "REMOVE_FROM_CART" /\ ~last.hit
    /\ cart.items # <<>>

\* C5: SetQuantity(id, q) yields the prior entries with the quantity of the
\* entry of that id replaced by q and the total recomputed; every other entry
\* is unchanged, and when no entry has that id the items and the total are
\* the prior ones (and the reducer raises no error).
C5_SetQuantitySemantics ==
    [][ last'.type = "UPDATE_QUANTITY" =>
          \A id \in ProductIds \cap {last'.productId}, q \in Quantities :
            updateQuantity(id, q) =>
                IF HasEntry(cart.items, id)
                THEN /\ cart'.items =
                            [i \in DOMAIN cart.items |->
                                IF cart.items[i].id = id
                                THEN [cart.items[i] EXCEPT !.quantity = q]
                                ELSE cart.items[i]]
                     /\ cart'.total = SumOfEntries(cart'.items)
                ELSE cart' = cart
      ]_vars

\* C5's case: a SetQuantity of an id that a cart with entries does not hold.
C5_Witness ==
    /\ last.type = "UPDATE_QUANTITY" /\ ~last.hit
    /\ cart.items # <<>>

\* C6: Clear() applied to any reachable cart state yields exactly
\* {items: [], total: 0}.
C6_ClearYieldsEmptyCart ==
    last.type = "CLEAR_CART" => cart = [items |-> <<>>, total |-> 0]

\* C6's case: a cart with entries was cleared.
C6_Witness ==
    last.type = "CLEAR_CART" /\ last.hit

\* The one entry of p1 at 1999 cents, with quantity q.
ScenarioEntry(q) ==
    [id |-> "p1", price_cents |-> 1999, currency |-> "USD", quantity |-> q]

\* C7: from the empty cart, Add(p1 at 1999 cents) gives total 1999 and items
\* [p1 qty 1]; Add(p1) again gives total 3998 and qty 2; SetQuantity(p1, 5)
\* gives total 9995; Remove(p1) gives items [] and total 0.
C7_Scenario ==
    /\ scen = 1 => cart = [items |-> << ScenarioEntry(1) >>, total |-> 1999]
    /\ scen = 2 => cart = [items |-> << ScenarioEntry(2) >>, total |-> 3998]
    /\ scen = 3 => cart = [items |-> << ScenarioEntry(5) >>, total |-> 9995]
    /\ scen = 4 => cart = [items |-> <<>>, total |-> 0]

\* C7's case: the four operations of the scenario have run.
C7_Witness ==
    scen = 4 /\ last.type = "REMOVE_FROM_CART" /\ last.hit

\* C8 (as claimed): whatever quantity SetQuantity is dispatched with, every
\* cart entry's quantity is a positive integer.
C8_QuantitiesPositive ==
    \A i \in DOMAIN cart.items : cart.items[i].quantity >= 1

\* The ids of the entries, in the order of the entries.
IdsOf(items) == [k \in DOMAIN items |-> items[k].id]

\* C21: the entries are kept in insertion order: Add of a new id places the
\* entry last, and Add of an existing id, SetQuantity and Remove leave the
\* entries that remain in the order they had.
C21_InsertionOrderKept ==
    [][ last'.type \in {"ADD_TO_CART", "UPDATE_QUANTITY", "REMOVE_FROM_CART"} =>
          LET before == IdsOf(cart.items)
              after  == IdsOf(cart'.items)
              id     == last'.productId
          IN  CASE last'.type = "ADD_TO_CART" /\ ~last'.hit ->
                       after = Append(before, id)
                [] last'.type = "REMOVE_FROM_CART" ->
                       after = SelectSeq(before, LAMBDA other : other # id)
                [] OTHER -> after = before
      ]_vars

\* C21's case: an Add of a new id has put its entry behind two others.
C21_Witness ==
    /\ last.type = "ADD_TO_CART" /\ ~last.hit
    /\ Len(cart.items) = 3
    /\ cart.items[3].id = last.productId /\ cart.items[3].quantity = 1

\* C23: an entry keeps the product data of its first Add: an Add of a
\* product with the same id and another price_cents adds 1 to the quantity,
\* leaves the entry's price_cents as stored, and the total is the sum over
\* the stored prices.
C23_EntryKeepsFirstProduct ==
    [][ last'.type = "ADD_TO_CART" /\ last'.hit =>
          \A P \in Catalog :
            addToCart(P) =>
                LET k == IndexOf(cart.items, P.id)
                IN  /\ cart'.items[k].price_cents = cart.items[k].price_cents
                    /\ cart'.items[k].currency = cart.items[k].currency
                    /\ cart'.items[k].quantity = cart.items[k].quantity + 1
                    /\ cart'.total = cart.total + cart.items[k].price_cents
      ]_vars

\* C23's case: p1 was first added at 2000 cents; a later Add of p1 made the
\* quantity 2 (the only other card of p1 costs 1999) and the total, 4000 for
\* p1 alone, is no sum that involves 1999.
C23_Witness ==
    /\ last.type = "ADD_TO_CART" /\ last.hit /\ last.productId = "p1"
    /\ Len(cart.items) = 1
    /\ cart.items[1].price_cents = 2000 /\ cart.items[1].quantity = 2
    /\ cart.total = 4000

\* C29 (as claimed): the subtotal is displayed in the currency of the
\* entries it sums: in every reachable state all cart entries share one
\* currency, and it is the currency the subtotal is formatted in.
C29_SubtotalInCurrencyOfEntries ==
    \A k \in DOMAIN cart.items :
        /\ cart.items[k].currency = cart.items[1].currency
        /\ cart.items[k].currency = Subtotal(cart).currency

----------------------------------------------------------------------------
(* Properties of the price filter *)

\* The products of list priced from range.min * 100 to range.max * 100 cents,
\* both included, in the order of list.
WithinBounds(list, range) ==
    SelectSeq(list, LAMBDA p : /\ range.min * 100 <= p.price_cents
                               /\ p.price_cents <= range.max * 100)

\* C9: the price-range filter applied to a product list and a bound
\* {min, max} returns exactly the products p with
\* min*100 <= p.price_cents <= max*100; a product priced at exactly min*100
\* or max*100 cents is included.  Stated of the list the page displays after
\* each application, and of the stored list under every bound.
C9_FilterReturnsWithinBounds ==
    /\ applied.by # "none" =>
            filteredProducts = WithinBounds(products, applied.range)
    /\ \A range \in PriceRanges :
            PriceFilter(products, range) = WithinBounds(products, range)

\* C9's case: a price range was selected that drops a product and keeps one
\* priced at exactly min*100 and one priced at exactly max*100 cents.
C9_Witness ==
    /\ applied.by = "onPriceChange"
    /\ Len(filteredProducts) < Len(products)
    /\ \E i, j \in DOMAIN filteredProducts :
          /\ i # j
          /\ filteredProducts[i].price_cents = applied.range.min * 100
          /\ filteredProducts[j].price_cents = applied.range.max * 100

\* C10: the price-range filter is idempotent: for every product list L and
\* bound r, filter(filter(L, r), r) equals filter(L, r).  Stated of the stored
\* list under every bound, and of the displayed list under the bound it was
\* filtered with.
C10_FilterIdempotent ==
    /\ \A range \in PriceRanges :
            PriceFilter(PriceFilter(products, range), range)
                = PriceFilter(products, range)
    /\ applied.by # "none" =>
            PriceFilter(filteredProducts, applied.range) = filteredProducts

\* C10's case: a response was filtered with a bound that drops some of its
\* products and keeps others.
C10_Witness ==
    /\ applied.by = "handleResponse"
    /\ applied.range # DefaultRange
    /\ Len(filteredProducts) > 0
    /\ Len(filteredProducts) < Len(products)

----------------------------------------------------------------------------
(* Properties of the page *)

\* The handlers that apply an answer of the agent.
Resolved == {"submitResolved", "imageResolved"}

\* The handlers that end a request without an answer.
Rejected == {"submitRejected", "imageRejected"}

\* sub is list with some of its elements left out: same elements, same order.
RECURSIVE IsSubsequence(_, _)
IsSubsequence(sub, list) ==
    IF sub = << >> THEN TRUE
    ELSE IF list = << >> THEN FALSE
    ELSE IF Head(sub) = Head(list)
         THEN IsSubsequence(Tail(sub), Tail(list))
         ELSE IsSubsequence(sub, Tail(list))

\* C11: in every reachable state of the page the displayed product list is a
\* subsequence of the products of the most recently applied agent response:
\* the page adds no product and reorders none, and the price filter keeps the
\* survivors in their relative order.  The stored list is the list of the
\* answer applied last, and only the application of an answer changes it.
C11_DisplayedIsSubsequence ==
    /\ [](IsSubsequence(filteredProducts, products))
    /\ [](event.by \in Resolved => products = event.response.products)
    /\ [][products' # products => event'.by \in Resolved]_vars

\* C11's case: an answer of three products was applied under a price range
\* that drops the first of them; the two survivors are displayed in order.
C11_Witness ==
    /\ event.by \in Resolved
    /\ Len(products) = 3
    /\ filteredProducts = << products[2], products[3] >>

\* The handlers that issue a request.
Issued == {"handleSubmit", "handleImageUpload"}

\* C12: when a chat or image request fails, no partial result is applied:
\* the stored product list, the displayed list and the follow-up are the same
\* after the failure as before the request was issued.  Neither the step that
\* issues a request nor the step that ends it in failure changes any of them.
C12_FailureAppliesNothing ==
    [][ event'.by \in Issued \cup Rejected =>
            UNCHANGED <<products, filteredProducts, followUp>> ]_vars

\* C12's case: a request failed while the page showed products and a
\* follow-up question.
C12_Witness ==
    /\ event.by \in Rejected
    /\ Len(filteredProducts) > 0
    /\ followUp # "null"

\* C13 (as claimed): a chat request fully succeeds or fully fails: when it
\* fails, the whole page state (product list, displayed list, follow-up and
\* chat message log) is the one before the submission.
C13_FailureRestoresPage ==
    event.by = "submitRejected" =>
        /\ products = submitted.products
        /\ filteredProducts = submitted.filteredProducts
        /\ followUp = submitted.followUp
        /\ messages = submitted.messages

\* C13 (amended): when a chat request fails, the request has changed none of
\* the product list, the displayed list and the follow-up, but the chat
\* message log is not the one before the submission: it is that log followed
\* by the message of the user that the submission appended (and by whatever
\* was appended since).
C13_FailureKeepsUserMessage ==
    /\ [](event.by = "submitRejected" =>
            /\ Len(messages) > Len(submitted.messages)
            /\ SubSeq(messages, 1, Len(submitted.messages)) = submitted.messages
            /\ messages[Len(submitted.messages) + 1].role = "user")
    /\ [][ event'.by \in {"handleSubmit", "submitRejected"} =>
            /\ products' = products
            /\ filteredProducts' = filteredProducts
            /\ followUp' = followUp ]_vars

\* C13's case: a chat request failed in a conversation that had messages and
\* products before the submission.
C13_Witness ==
    /\ event.by = "submitRejected"
    /\ Len(submitted.messages) > 0
    /\ Len(submitted.products) > 0

\* C14 (as claimed): when a backend request made from the chat fails, the
\* error is surfaced to the user in the chat: on the failure the chat log
\* gains an entry, and it is not a message of the user.
C14_FailureAddsChatEntry ==
    [][ event'.by = "submitRejected" =>
            /\ Len(messages') = Len(messages) + 1
            /\ messages'[Len(messages')].role # "user" ]_vars

\* C15: every started request eventually clears the loading indicator it
\* set: once the request resolves or rejects, the loading flag of the chat
\* (chat submit) or loading and chatExternalLoading of the page (image
\* upload) are false again, on success and failure alike.
C15_SettledClearsLoading ==
    /\ [](event.by \in {"submitResolved", "submitRejected"} => ~chatLoading)
    /\ [](event.by \in {"imageResolved", "imageRejected"} =>
                ~loading /\ ~chatExternalLoading)
    /\ (chatLoading ~> ~chatLoading)
    /\ (loading ~> ~loading)
    /\ (chatExternalLoading ~> ~chatExternalLoading)

\* C15's case: a second request has failed, and no loading flag is set.
C15_Witness ==
    /\ event.by \in Rejected
    /\ event.id = 2
    /\ ~chatLoading /\ ~loading /\ ~chatExternalLoading

\* The ids of the requests awaiting their answer.
PendingIds == {request.id : request \in pending}

\* C17: each successful chat submission is applied exactly once and as a
\* whole: the stored products become exactly response.products, the
\* follow-up becomes response.follow_up_question, or is cleared when the
\* response has none, and exactly one assistant message carrying
\* response.text is appended to the log, after the message of the user.
C17_SuccessAppliedOnceAndWhole ==
    /\ [](event.by = "submitResolved" =>
            /\ products = event.response.products
            /\ followUp =
                    IF event.response.follow_up_question \in {"null", "undefined"}
                    THEN "null"
                    ELSE event.response.follow_up_question
            /\ Len(messages) >= Len(submitted.messages) + 2
            /\ messages[Len(submitted.messages) + 1] =
                    [role |-> "user", content |-> "shoes"]
            /\ messages[Len(messages)] =
                    [role |-> "assistant", content |-> event.response.text])
    /\ [][ event'.by = "submitResolved" =>
            /\ messages' = Append(messages, [role |-> "assistant",
                                              content |-> event'.response.text])
            /\ event'.id \in PendingIds
            /\ event'.id \notin {request.id : request \in pending'}
            /\ issued' = issued ]_vars

\* C17's case: a second chat submission succeeded with an answer that has
\* products and no follow-up question, while the page showed a follow-up.
C17_Witness ==
    /\ event.by = "submitResolved"
    /\ event.response.follow_up_question = "undefined"
    /\ Len(products) = 3
    /\ submitted.followUp # "null"
    /\ followUp = "null"

\* C18: a successful AgentResponse with an empty product list puts the page
\* in the empty-state placeholder (an empty displayed list), not in an error,
\* and the text of the assistant is still appended to the chat log: at once
\* for a chat submission, and for an image upload through the external
\* messages, which the chat moves to its log.
C18_EmptyAnswerShowsPlaceholder ==
    /\ []((event.by \in Resolved /\ event.response.products = << >>) =>
            /\ products = << >>
            /\ filteredProducts = << >>
            /\ ProductGrid(filteredProducts).view = "placeholder"
            /\ event.by = "submitResolved" =>
                    messages[Len(messages)] =
                        [role |-> "assistant", content |-> event.response.text]
            /\ event.by = "imageResolved" =>
                    chatExternalMessages[Len(chatExternalMessages)] =
                        [role |-> "assistant", content |-> event.response.text])
    /\ [][ event'.by = "consumeExternalMessages" =>
            /\ messages' = messages \o chatExternalMessages
            /\ chatExternalMessages' = << >> ]_vars

\* C18's case: a chat submission made while products were shown succeeded
\* with an answer without products.
C18_Witness ==
    /\ event.by = "submitResolved"
    /\ event.response.products = << >>
    /\ Len(submitted.filteredProducts) > 0
    /\ ProductGrid(filteredProducts).view = "placeholder"

\* C20 (as claimed): a second submission made while an earlier request is
\* still pending is not blocked: with a message typed, the chat can be
\* submitted whenever a request is pending.
C20_SecondSubmissionNotBlocked ==
    (pending # {} /\ Trim(input) # "" /\ issued < MaxRequests) =>
        ENABLED handleSubmit

\* C20 (amended): each chat submission of a message that is not blank and
\* each image upload issues exactly one backend request, and there is no
\* retry, cancellation or de-duplication: a request leaves the pending ones
\* only as it settles.  An image upload is never blocked, and made while an
\* earlier request is pending it issues a second, independent request; a
\* chat submission is blocked while the loading flag of the chat or
\* chatExternalLoading is set.
C20_OneRequestPerAction ==
    /\ [][ event'.by \in Issued =>
            /\ issued' = issued + 1
            /\ event'.id = issued'
            /\ event'.id \notin PendingIds
            /\ pending \subseteq pending'
            /\ Cardinality(pending') = Cardinality(pending) + 1
            /\ \E request \in pending' \ pending : request.id = event'.id ]_vars
    /\ [][ event'.by \notin Issued =>
            /\ issued' = issued
            /\ pending' \subseteq pending
            /\ pending' # pending =>
                    /\ event'.by \in Resolved \cup Rejected
                    /\ pending \ pending' =
                            {request \in pending : request.id = event'.id}
                    /\ Cardinality(pending') = Cardinality(pending) - 1 ]_vars
    /\ [](issued < MaxRequests => ENABLED handleImageUpload)
    /\ []((chatLoading \/ chatExternalLoading) => ~ENABLED handleSubmit)
    /\ []((~chatLoading /\ ~chatExternalLoading /\ Trim(input) # ""
                /\ issued < MaxRequests) => ENABLED handleSubmit)

\* C20's case: an image was uploaded while a chat request was pending; both
\* requests are pending, and a message is typed that the chat does not take.
C20_Witness ==
    /\ Cardinality(pending) = 2
    /\ \E request \in pending : request.source = "text"
    /\ \E request \in pending : request.source = "image"
    /\ Trim(input) # ""
    /\ chatLoading

\* C24: applying a price range never changes the stored product list of the
\* latest response: every change of the range filters the stored list anew,
\* so that after a narrowing and a widening the page shows every stored
\* product that lies within the wider range.
C24_RangeChangeFiltersStoredList ==
    [][ event'.by = "onPriceChange" =>
          /\ products' = products
          /\ filteredProducts' = WithinBounds(products, priceRange')
      ]_vars

\* C24's case: the range went from 5..20 back to 0..2000 over a stored list
\* of which the narrow range admits less than the wide one, and the page
\* shows more products than the narrow range admits.
C24_Witness ==
    /\ event.by = "onPriceChange"
    /\ event.range = [min |-> 5, max |-> 20] /\ priceRange = DefaultRange
    /\ Len(WithinBounds(products, event.range)) < Len(WithinBounds(products, priceRange))
    /\ Len(filteredProducts) > Len(WithinBounds(products, event.range))

\* C25 (as claimed): in every reachable state the displayed product list is
\* the price filter of the stored product list under the price range now
\* selected, also when the range changes while a request is in flight and
\* the answer is applied afterwards.
C25_DisplayedIsFilterOfStored ==
    filteredProducts = WithinBounds(products, priceRange)

\* C27 (as claimed): while an image request is pending the loading flag of
\* the page and the combined loading flag of the chat are set, and while a
\* chat request is pending the loading flag of the chat is set.
C27_LoadingWhilePending ==
    /\ (\E request \in pending : request.source = "image") =>
            /\ loading
            /\ chatLoading \/ chatExternalLoading
    /\ (\E request \in pending : request.source = "text") => chatLoading

\* C26 (as claimed): when several requests overlap and all of them have
\* completed successfully, the stored product list and the follow-up are
\* those of the request issued last: the answer of an older request that
\* arrives late does not overwrite the result of a newer one.
C26_NewestRequestWins ==
    (issued > 0 /\ pending = {} /\ ~trace.rejected) =>
        /\ trace.latest.id = issued
        /\ products = trace.latest.response.products
        /\ followUp = NullishCoalesce(trace.latest.response.follow_up_question,
                                      "null")

\* C30 (as claimed): every message the page hands to the chat for the image
\* flow is appended to the log exactly once and in the order produced: the
\* messages appended so far, followed by those still waiting in the list of
\* the page, are the messages handed, also after a new upload has replaced
\* the list.
C30_HandedMessagesReachLog ==
    trace.consumed \o chatExternalMessages = trace.handed

----------------------------------------------------------------------------
(* Properties of the shop *)

\* C22: the cart starts as {items: [], total: 0} and changes only through
\* Add, Remove, SetQuantity and Clear: a step of the page (an agent response
\* applied or failed, an image upload, a change of the price range) and the
\* dispatch of an unrecognised action leave items and total as they were, so
\* that an entry stays in the cart when its product is no longer displayed.
C22_CartChangesOnlyThroughItsOperations ==
    /\ cart = EmptyCart
    /\ [][ /\ pageVars' # pageVars => cart' = cart
           /\ last'.type = "OTHER" => cart' = cart
           /\ cart' # cart =>
                 /\ last'.type \in {"ADD_TO_CART", "REMOVE_FROM_CART",
                                     "UPDATE_QUANTITY", "CLEAR_CART"}
                 /\ pageVars' = pageVars
         ]_vars

\* C22's case: after a step of the page that applied a price filter (an
\* answer or a change of the range), the cart holds an entry of a product
\* that is not among the products displayed.
C22_Witness ==
    /\ cart.items # << >> /\ cart.total > 0
    /\ event.by \in {"onPriceChange", "imageResolved", "submitResolved"}
    /\ \E k \in DOMAIN cart.items :
          \A product \in Shown : product.id # cart.items[k].id

\* C28 (as claimed): in every state reachable through the UI (Add to Cart
\* clicks, quantity selections, Remove clicks) the quantity of every cart
\* entry is one of the values the quantity select offers, an integer from
\* 1 to 10.
C28_QuantityIsAnOption ==
    \A k \in DOMAIN cart.items : cart.items[k].quantity \in QuantityOptions

----------------------------------------------------------------------------
(* Properties of sendAgentMessage *)

\* C16: sendAgentMessage returns an AgentResponse only when the HTTP status
\* is a success; for every status outside 200..299 it throws, and the error
\* carries the status code and at most the first 200 characters of the body
\* of the response; it is thrown also when the body cannot be read.
C16_ThrowsUnlessSuccess ==
    /\ outcome.state = "fulfilled" =>
            /\ received.settled = "resolved"
            /\ received.status \in 200 .. 299
    /\ (received.settled = "resolved" /\ received.status \notin 200 .. 299) =>
            LET detail == outcome.error.detail.text
            IN  /\ outcome.state = "rejected"
                /\ outcome.error.name = "Error"
                /\ outcome.error.status = received.status
                /\ Len(detail) <= 200
                /\ Len(detail) <= Len(received.text)
                /\ detail = SubSeq(received.text, 1, Len(detail))
                /\ received.readable =>
                        Len(detail) = 200 \/ detail = received.text
                /\ ~received.readable => detail = << >>

\* C16's case: a status 500 whose body is longer than 200 characters was
\* thrown with the first 200 of them.
C16_Witness ==
    /\ outcome.state = "rejected"
    /\ received.status = 500
    /\ received.readable
    /\ Len(received.text) > 200
    /\ Len(outcome.error.detail.text) = 200

\* The property of the body sent under key, when there is one.
HasProperty(body, key) == \E i \in DOMAIN body : body[i].key = key

PropertyText(body, key) ==
    body[CHOOSE i \in DOMAIN body : body[i].key = key].text

\* C19: the front end never sends the Browse.ai API key: for every call of
\* sendAgentMessage the request body is the same whatever
\* options.browse_api_key is, and holds no API-key field; only message,
\* allow_web and the non-empty image_b64, web_url and browse_extractor are
\* sent.
C19_BodyWithoutApiKey ==
    outcome.state # "idle" =>
        LET body    == sent.body
            options == call.options
        IN  /\ \A key \in {"undefined", "", "key", "other"} :
                    body = RequestBody(call.message,
                                       [options EXCEPT !.browse_api_key = key], env)
            /\ \A i \in DOMAIN body :
                    /\ body[i].key \in {"message", "allow_web", "image_b64",
                                        "web_url", "browse_extractor"}
                    /\ options.browse_api_key # "undefined" =>
                            body[i].text # options.browse_api_key
            /\ \A i, j \in DOMAIN body : body[i].key = body[j].key => i = j
            /\ HasProperty(body, "message")
            /\ PropertyText(body, "message") = call.message
            /\ HasProperty(body, "allow_web")
            /\ HasProperty(body, "image_b64") <=>
                    options.image_b64 \notin {"undefined", ""}
            /\ HasProperty(body, "image_b64") =>
                    PropertyText(body, "image_b64") = options.image_b64
            /\ HasProperty(body, "web_url") <=>
                    options.web_url \notin {"undefined", ""}
            /\ HasProperty(body, "web_url") =>
                    PropertyText(body, "web_url") = options.web_url
            /\ HasProperty(body, "browse_extractor") <=>
                    \/ options.browse_extractor \notin {"undefined", ""}
                    \/ options.browse_extractor = "undefined" /\ env.extractor # ""
            /\ HasProperty(body, "browse_extractor") =>
                    PropertyText(body, "browse_extractor") # ""

\* C19's case: a call that gives an API key along with an image, a URL and an
\* extractor; the body sent holds the five other properties.
C19_Witness ==
    /\ outcome.state # "idle"
    /\ call.options.browse_api_key = "key"
    /\ Len(sent.body) = 5

====
